---- MODULE Spec2Model ----
(***************************************************************************)
(* Model of packages/jinja/src/parser.ts: parse(tokens) turns a token      *)
(* sequence into a Program (a sequence of statements) or throws.           *)
(*                                                                         *)
(* The nested parse functions of the source close over `tokens` and the    *)
(* mutable cursor `current`.  Here every parse function takes the cursor   *)
(* it starts at and returns a result record                                *)
(*     [node |-> the node built, cur |-> the cursor afterwards,            *)
(*      err  |-> the exception thrown, NoErr when it returned]             *)
(* and the top-level loop of parse is the state machine.  A call from one  *)
(* parse function to another is written call("name", cursor).              *)
(* The cursor is 0-based as in the source: tokens[current] of the source   *)
(* is tokens[current + 1] here.                                            *)
(***************************************************************************)
EXTENDS Integers, Sequences, FiniteSets, TLC

VARIABLES tokens, current, program, pc, error

vars == <<tokens, current, program, pc, error>>

----------------------------------------------------------------------------
(* Exceptions.  kind is the error of the taxonomy; an ExpectedToken error  *)
(* carries the expected and the actual token type.  TypeError is the       *)
(* JavaScript TypeError raised by reading `.type` of an undefined token.   *)

NoErr == [kind |-> "none", expected |-> "", actual |-> ""]

Err(kind, expected, actual) == [kind |-> kind, expected |-> expected, actual |-> actual]

Nil == [type |-> "Nil"]

Undefined == [type |-> "Undefined"]

Return(node, c) == [node |-> node, cur |-> c, err |-> NoErr]

Throw(kind, expected, actual, c) == [node |-> Nil, cur |-> c, err |-> Err(kind, expected, actual)]

Ok(r) == r.err.kind = "none"

----------------------------------------------------------------------------
(* AST nodes (the constructors imported from ./ast).                       *)

StringLiteral(value) == [type |-> "StringLiteral", value |-> value]

NumericLiteral(value) == [type |-> "NumericLiteral", value |-> value]

BooleanLiteral(value) == [type |-> "BooleanLiteral", value |-> value]

Identifier(name) == [type |-> "Identifier", name |-> name]

ArrayLiteral(elements) == [type |-> "ArrayLiteral", elements |-> elements]

ObjectLiteral(pairs) == [type |-> "ObjectLiteral", pairs |-> pairs]

If(test, body, alternate) == [type |-> "If", test |-> test, body |-> body, alternate |-> alternate]

For(loopVariable, iterable, body) == [type |-> "For", loopVariable |-> loopVariable, iterable |-> iterable, body |-> body]

SetStatement(target, value) == [type |-> "SetStatement", target |-> target, value |-> value]

MemberExpression(object, property, computed) == [type |-> "MemberExpression", object |-> object, property |-> property, computed |-> computed]

CallExpression(callee, args) == [type |-> "CallExpression", callee |-> callee, args |-> args]

BinaryExpression(operator, left, right) == [type |-> "BinaryExpression", operator |-> operator, left |-> left, right |-> right]

UnaryExpression(operator, operand) == [type |-> "UnaryExpression", operator |-> operator, operand |-> operand]

FilterExpression(operand, filter) == [type |-> "FilterExpression", operand |-> operand, filter |-> filter]

TestExpression(operand, negate, test) == [type |-> "TestExpression", operand |-> operand, negate |-> negate, test |-> test]

SliceExpression(start, stop, step) == [type |-> "SliceExpression", start |-> start, stop |-> stop, step |-> step]

KeywordArgumentExpression(key, value) == [type |-> "KeywordArgumentExpression", key |-> key, value |-> value]

----------------------------------------------------------------------------
(* Conversions applied to token payloads.                                  *)

\* Number(token.value) on the decimal numerals the inputs use
Number(value) ==
  CASE value = "1" -> 1
    [] value = "2" -> 2
    [] value = "3" -> 3
    [] value = "4" -> 4
    [] OTHER -> 0

\* filter.value.toString() of a BooleanLiteral node
BoolToString(b) == IF b THEN "true" ELSE "false"

----------------------------------------------------------------------------
(* Cursor and lookahead primitives.                                        *)

\* tokens[i]?.type : "undefined" past the end, no exception
OptType(i) == IF i < Len(tokens) THEN tokens[i + 1].type ELSE "undefined"

\* expect(type, error): prev = tokens[current++]; when prev is undefined the
\* error message itself reads prev.type, which is a TypeError.
expect(c, type) ==
  IF c >= Len(tokens)
    THEN Throw("TypeError", "", "undefined", c + 1)
    ELSE IF tokens[c + 1].type # type
      THEN Throw("ExpectedToken", type, tokens[c + 1].type, c + 1)
      ELSE Return(tokens[c + 1], c + 1)

\* not(...types)
not(c, types) ==
  /\ c + Len(types) <= Len(tokens)
  /\ \E i \in 1..Len(types) : types[i] # tokens[c + i].type

\* is(...types)
is(c, types) ==
  /\ c + Len(types) <= Len(tokens)
  /\ \A i \in 1..Len(types) : types[i] = tokens[c + i].type

----------------------------------------------------------------------------
(* The parse functions.  They are mutually recursive, as in the source;    *)
(* a call from one to another goes through call, defined after them.      *)

RECURSIVE call(_, _)
RECURSIVE parseAny(_), parseJinjaStatement(_), parseSetStatement(_)
RECURSIVE parseIfStatement(_), parseIfBody(_, _), parseElseBody(_, _)
RECURSIVE parseForStatement(_), parseForBody(_, _)
RECURSIVE parseExpression(_), parseLogicalOrExpression(_), parseLogicalOrLoop(_)
RECURSIVE parseLogicalAndExpression(_), parseLogicalAndLoop(_)
RECURSIVE parseLogicalNegationExpression(_), parseLogicalNegationLoop(_, _)
RECURSIVE parseComparisonExpression(_), parseComparisonLoop(_)
RECURSIVE parseAdditiveExpression(_), parseAdditiveLoop(_)
RECURSIVE parseMultiplicativeExpression(_), parseMultiplicativeLoop(_)
RECURSIVE parseTestExpression(_), parseTestLoop(_)
RECURSIVE parseFilterExpression(_), parseFilterLoop(_)
RECURSIVE parseCallMemberExpression(_), parseCallExpression(_, _), parseArgs(_)
RECURSIVE parseArgumentsList(_, _), parseMemberExpressionArgumentsList(_, _, _)
RECURSIVE parseMemberExpression(_), parseMemberLoop(_)
RECURSIVE parsePrimaryExpression(_), parseArrayElements(_, _), parseObjectEntries(_, _)

parseText(c) ==
  LET t == expect(c, "Text")
  IN  IF Ok(t) THEN Return(StringLiteral(t.node.value), t.cur) ELSE t

parseJinjaExpression(c) ==
  LET o == expect(c, "OpenExpression")
  IN  IF ~Ok(o) THEN o ELSE
      LET result == call("parseExpression", o.cur)
      IN  IF ~Ok(result) THEN result ELSE
          LET e == expect(result.cur, "CloseExpression")
          IN  IF Ok(e) THEN Return(result.node, e.cur) ELSE e

\* switch (tokens[current].type): reading .type of an undefined token throws
parseAny(c) ==
  IF c >= Len(tokens) THEN Throw("TypeError", "", "undefined", c)
  ELSE CASE tokens[c + 1].type = "Text" -> call("parseText", c)
         [] tokens[c + 1].type = "OpenStatement" -> call("parseJinjaStatement", c)
         [] tokens[c + 1].type = "OpenExpression" -> call("parseJinjaExpression", c)
         [] OTHER -> Throw("UnexpectedToken", "", tokens[c + 1].type, c)

\* the three expect calls that close an if or a for block
expectEnd(result, keyword) ==
  LET o == expect(result.cur, "OpenStatement")
  IN  IF ~Ok(o) THEN o ELSE
      LET k == expect(o.cur, keyword)
      IN  IF ~Ok(k) THEN k ELSE
          LET e == expect(k.cur, "CloseStatement")
          IN  IF Ok(e) THEN Return(result.node, e.cur) ELSE e

parseJinjaStatement(c) ==
  LET o == expect(c, "OpenStatement")
  IN  IF ~Ok(o) THEN o
      ELSE IF o.cur >= Len(tokens) THEN Throw("TypeError", "", "undefined", o.cur)
      ELSE CASE tokens[o.cur + 1].type = "Set" ->
                  LET result == call("parseSetStatement", o.cur + 1)
                  IN  IF ~Ok(result) THEN result ELSE
                      LET e == expect(result.cur, "CloseStatement")
                      IN  IF Ok(e) THEN Return(result.node, e.cur) ELSE e
             [] tokens[o.cur + 1].type = "If" ->
                  LET result == call("parseIfStatement", o.cur + 1)
                  IN  IF Ok(result) THEN expectEnd(result, "EndIf") ELSE result
             [] tokens[o.cur + 1].type = "For" ->
                  LET result == call("parseForStatement", o.cur + 1)
                  IN  IF Ok(result) THEN expectEnd(result, "EndFor") ELSE result
             [] OTHER -> Throw("UnexpectedToken", "", tokens[o.cur + 1].type, o.cur)

parseSetStatement(c) ==
  LET left == call("parseExpression", c)
  IN  IF ~Ok(left) THEN left
      ELSE IF is(left.cur, <<"Equals">>)
        THEN LET value == call("parseSetStatement", left.cur + 1)
             IN  IF Ok(value) THEN Return(SetStatement(left.node, value.node), value.cur) ELSE value
        ELSE left

\* while (!(tokens[current]?.type === OpenStatement &&
\*          (tokens[current + 1]?.type is ElseIf, Else or EndIf))) body.push(parseAny())
parseIfBody(c, body) ==
  IF OptType(c) = "OpenStatement" /\ OptType(c + 1) \in {"ElseIf", "Else", "EndIf"}
    THEN Return(body, c)
    ELSE LET s == call("parseAny", c)
         IN  IF Ok(s) THEN parseIfBody(s.cur, Append(body, s.node)) ELSE s

\* while (!(tokens[current]?.type === OpenStatement && tokens[current + 1]?.type === EndIf))
parseElseBody(c, alternate) ==
  IF OptType(c) = "OpenStatement" /\ OptType(c + 1) = "EndIf"
    THEN Return(alternate, c)
    ELSE LET s == call("parseAny", c)
         IN  IF Ok(s) THEN parseElseBody(s.cur, Append(alternate, s.node)) ELSE s

\* parseIfAlternate with a slip: the If of an elif consumes an endif of its own
parseIfAlternateClosingElif(c) ==
  IF OptType(c) = "OpenStatement" /\ OptType(c + 1) # "EndIf"
    THEN IF is(c + 1, <<"ElseIf">>)
      THEN LET k == expect(c + 1, "ElseIf")
           IN  IF ~Ok(k) THEN k ELSE
               LET nested == call("parseIfStatement", k.cur)
               IN  IF ~Ok(nested) THEN nested ELSE
                   LET closed == expectEnd(nested, "EndIf")
                   IN  IF Ok(closed) THEN Return(<<closed.node>>, closed.cur) ELSE closed
      ELSE LET k == expect(c + 1, "Else")
           IN  IF ~Ok(k) THEN k ELSE
               LET e == expect(k.cur, "CloseStatement")
               IN  IF Ok(e) THEN parseElseBody(e.cur, <<>>) ELSE e
    ELSE Return(<<>>, c)

\* the alternate branch of parseIfStatement, from the cursor after the body
parseIfAlternate(c) ==
  IF OptType(c) = "OpenStatement" /\ OptType(c + 1) # "EndIf"
    THEN IF is(c + 1, <<"ElseIf">>)
      THEN LET k == expect(c + 1, "ElseIf")
           IN  IF ~Ok(k) THEN k ELSE
               LET nested == call("parseIfStatement", k.cur)
               IN  IF Ok(nested) THEN Return(<<nested.node>>, nested.cur) ELSE nested
      ELSE LET k == expect(c + 1, "Else")
           IN  IF ~Ok(k) THEN k ELSE
               LET e == expect(k.cur, "CloseStatement")
               IN  IF Ok(e) THEN parseElseBody(e.cur, <<>>) ELSE e
    ELSE Return(<<>>, c)

parseIfStatement(c) ==
  LET test == call("parseExpression", c)
  IN  IF ~Ok(test) THEN test ELSE
      LET e == expect(test.cur, "CloseStatement")
      IN  IF ~Ok(e) THEN e ELSE
          LET body == parseIfBody(e.cur, <<>>)
          IN  IF ~Ok(body) THEN body ELSE
              LET alternate == parseIfAlternate(body.cur)
              IN  IF Ok(alternate)
                    THEN Return(If(test.node, body.node, alternate.node), alternate.cur)
                    ELSE alternate

\* while (not(OpenStatement, EndFor)) body.push(parseAny())
parseForBody(c, body) ==
  IF not(c, <<"OpenStatement", "EndFor">>)
    THEN LET s == call("parseAny", c)
         IN  IF Ok(s) THEN parseForBody(s.cur, Append(body, s.node)) ELSE s
    ELSE Return(body, c)

\* parseForStatement with a slip: the loop target is parsed as a member expression
parseForStatementMemberTarget(c) ==
  LET loopVariable == call("parseMemberExpression", c)
  IN  IF ~Ok(loopVariable) THEN loopVariable
      ELSE IF loopVariable.node.type # "Identifier"
        THEN Throw("InvalidLoopVariable", "", "", loopVariable.cur)
      ELSE
      LET k == expect(loopVariable.cur, "In")
      IN  IF ~Ok(k) THEN k ELSE
          LET iterable == call("parseExpression", k.cur)
          IN  IF ~Ok(iterable) THEN iterable ELSE
              LET e == expect(iterable.cur, "CloseStatement")
              IN  IF ~Ok(e) THEN e ELSE
                  LET body == parseForBody(e.cur, <<>>)
                  IN  IF Ok(body)
                        THEN Return(For(loopVariable.node, iterable.node, body.node), body.cur)
                        ELSE body

parseForStatement(c) ==
  LET loopVariable == call("parsePrimaryExpression", c)
  IN  IF ~Ok(loopVariable) THEN loopVariable
      ELSE IF loopVariable.node.type # "Identifier"
        THEN Throw("InvalidLoopVariable", "", "", loopVariable.cur)
      ELSE
      LET k == expect(loopVariable.cur, "In")
      IN  IF ~Ok(k) THEN k ELSE
          LET iterable == call("parseExpression", k.cur)
          IN  IF ~Ok(iterable) THEN iterable ELSE
              LET e == expect(iterable.cur, "CloseStatement")
              IN  IF ~Ok(e) THEN e ELSE
                  LET body == parseForBody(e.cur, <<>>)
                  IN  IF Ok(body)
                        THEN Return(For(loopVariable.node, iterable.node, body.node), body.cur)
                        ELSE body

----------------------------------------------------------------------------
(* The expression precedence chain.  Every while loop of the source is a   *)
(* recursive operator over the result built so far (left, operand, ...).   *)

parseExpression(c) ==
  LET a == call("parseLogicalOrExpression", c)
  IN  IF ~Ok(a) THEN a
      ELSE IF is(a.cur, <<"If">>)
        THEN LET predicate == call("parseLogicalOrExpression", a.cur + 1)
             IN  IF ~Ok(predicate) THEN predicate ELSE
                 LET k == expect(predicate.cur, "Else")
                 IN  IF ~Ok(k) THEN k ELSE
                     LET b == call("parseLogicalOrExpression", k.cur)
                     IN  IF Ok(b) THEN Return(If(predicate.node, <<a.node>>, <<b.node>>), b.cur) ELSE b
        ELSE a

parseLogicalOrLoop(left) ==
  IF is(left.cur, <<"Or">>)
    THEN LET right == call("parseLogicalAndExpression", left.cur + 1)
         IN  IF Ok(right)
               THEN parseLogicalOrLoop(Return(BinaryExpression(tokens[left.cur + 1], left.node, right.node), right.cur))
               ELSE right
    ELSE left

parseLogicalOrExpression(c) ==
  LET left == call("parseLogicalAndExpression", c)
  IN  IF Ok(left) THEN parseLogicalOrLoop(left) ELSE left

parseLogicalAndLoop(left) ==
  IF is(left.cur, <<"And">>)
    THEN LET right == call("parseLogicalNegationExpression", left.cur + 1)
         IN  IF Ok(right)
               THEN parseLogicalAndLoop(Return(BinaryExpression(tokens[left.cur + 1], left.node, right.node), right.cur))
               ELSE right
    ELSE left

parseLogicalAndExpression(c) ==
  LET left == call("parseLogicalNegationExpression", c)
  IN  IF Ok(left) THEN parseLogicalAndLoop(left) ELSE left

\* while (is(Not)) { ...; right = new UnaryExpression(operator, arg) }
\* return right ?? parseComparisonExpression()
parseLogicalNegationLoop(c, right) ==
  IF is(c, <<"Not">>)
    THEN LET arg == call("parseLogicalNegationExpression", c + 1)
         IN  IF Ok(arg)
               THEN parseLogicalNegationLoop(arg.cur, UnaryExpression(tokens[c + 1], arg.node))
               ELSE arg
    ELSE IF right.type = "Undefined" THEN call("parseComparisonExpression", c) ELSE Return(right, c)

parseLogicalNegationExpression(c) == parseLogicalNegationLoop(c, Undefined)

\* parseComparisonLoop with a slip: the right operand absorbs the operators
\* that follow, which nests the chain to the right
parseComparisonLoopRightNested(left) ==
  IF is(left.cur, <<"ComparisonBinaryOperator">>) \/ is(left.cur, <<"In">>) \/ is(left.cur, <<"NotIn">>)
    THEN LET right == call("parseComparisonExpression", left.cur + 1)
         IN  IF Ok(right)
               THEN Return(BinaryExpression(tokens[left.cur + 1], left.node, right.node), right.cur)
               ELSE right
    ELSE left

parseComparisonLoop(left) ==
  IF is(left.cur, <<"ComparisonBinaryOperator">>) \/ is(left.cur, <<"In">>) \/ is(left.cur, <<"NotIn">>)
    THEN LET right == call("parseAdditiveExpression", left.cur + 1)
         IN  IF Ok(right)
               THEN parseComparisonLoop(Return(BinaryExpression(tokens[left.cur + 1], left.node, right.node), right.cur))
               ELSE right
    ELSE left

parseComparisonExpression(c) ==
  LET left == call("parseAdditiveExpression", c)
  IN  IF Ok(left) THEN parseComparisonLoop(left) ELSE left

\* parseAdditiveLoop with a slip: the right operand is parsed a tier too loose
parseAdditiveLoopLooseOperand(left) ==
  IF is(left.cur, <<"AdditiveBinaryOperator">>)
    THEN LET right == call("parseAdditiveExpression", left.cur + 1)
         IN  IF Ok(right)
               THEN parseAdditiveLoop(Return(BinaryExpression(tokens[left.cur + 1], left.node, right.node), right.cur))
               ELSE right
    ELSE left

parseAdditiveLoop(left) ==
  IF is(left.cur, <<"AdditiveBinaryOperator">>)
    THEN LET right == call("parseMultiplicativeExpression", left.cur + 1)
         IN  IF Ok(right)
               THEN parseAdditiveLoop(Return(BinaryExpression(tokens[left.cur + 1], left.node, right.node), right.cur))
               ELSE right
    ELSE left

parseAdditiveExpression(c) ==
  LET left == call("parseMultiplicativeExpression", c)
  IN  IF Ok(left) THEN parseAdditiveLoop(left) ELSE left

parseMultiplicativeLoop(left) ==
  IF is(left.cur, <<"MultiplicativeBinaryOperator">>)
    THEN LET right == call("parseTestExpression", left.cur + 1)
         IN  IF Ok(right)
               THEN parseMultiplicativeLoop(Return(BinaryExpression(tokens[left.cur + 1], left.node, right.node), right.cur))
               ELSE right
    ELSE left

parseMultiplicativeExpression(c) ==
  LET left == call("parseTestExpression", c)
  IN  IF Ok(left) THEN parseMultiplicativeLoop(left) ELSE left

\* the test name: a BooleanLiteral is turned into an Identifier of the same
\* text, anything else than an Identifier is rejected
parseTestName(filter) ==
  LET name == IF filter.node.type = "BooleanLiteral"
                THEN Identifier(BoolToString(filter.node.value))
                ELSE filter.node
  IN  IF name.type # "Identifier"
        THEN Throw("InvalidTestName", "", "", filter.cur)
        ELSE Return(name, filter.cur)

parseTestLoop(operand) ==
  IF is(operand.cur, <<"Is">>)
    THEN LET negate == is(operand.cur + 1, <<"Not">>)
             filter == call("parsePrimaryExpression", IF negate THEN operand.cur + 2 ELSE operand.cur + 1)
         IN  IF ~Ok(filter) THEN filter ELSE
             LET name == parseTestName(filter)
             IN  IF Ok(name)
                   THEN parseTestLoop(Return(TestExpression(operand.node, negate, name.node), name.cur))
                   ELSE name
    ELSE operand

parseTestExpression(c) ==
  LET operand == call("parseFilterExpression", c)
  IN  IF Ok(operand) THEN parseTestLoop(operand) ELSE operand

parseFilterLoop(operand) ==
  IF is(operand.cur, <<"Pipe">>)
    THEN LET name == call("parsePrimaryExpression", operand.cur + 1)
         IN  IF ~Ok(name) THEN name
             ELSE IF name.node.type # "Identifier"
               THEN Throw("InvalidFilterName", "", "", name.cur)
             ELSE
             LET filter == IF is(name.cur, <<"OpenParen">>)
                             THEN parseCallExpression(name.node, name.cur)
                             ELSE name
             IN  IF Ok(filter)
                   THEN parseFilterLoop(Return(FilterExpression(operand.node, filter.node), filter.cur))
                   ELSE filter
    ELSE operand

parseFilterExpression(c) ==
  LET operand == call("parseCallMemberExpression", c)
  IN  IF Ok(operand) THEN parseFilterLoop(operand) ELSE operand

----------------------------------------------------------------------------
(* Calls, member access and slices.                                        *)

parseCallMemberExpression(c) ==
  LET member == call("parseMemberExpression", c)
  IN  IF ~Ok(member) THEN member
      ELSE IF is(member.cur, <<"OpenParen">>)
        THEN parseCallExpression(member.node, member.cur)
        ELSE member

parseCallExpression(callee, c) ==
  LET args == call("parseArgs", c)
  IN  IF ~Ok(args) THEN args
      ELSE IF is(args.cur, <<"OpenParen">>)
        THEN parseCallExpression(CallExpression(callee, args.node), args.cur)
        ELSE Return(CallExpression(callee, args.node), args.cur)

parseArgs(c) ==
  LET o == expect(c, "OpenParen")
  IN  IF ~Ok(o) THEN o ELSE
      LET args == parseArgumentsList(o.cur, <<>>)
      IN  IF ~Ok(args) THEN args ELSE
          LET e == expect(args.cur, "CloseParen")
          IN  IF Ok(e) THEN Return(args.node, e.cur) ELSE e

\* if (is(Comma)) ++current
skipComma(c) == IF is(c, <<"Comma">>) THEN c + 1 ELSE c

\* one argument: an expression, made a keyword argument when `=` follows
parseArgument(c) ==
  LET argument == call("parseExpression", c)
  IN  IF ~Ok(argument) THEN argument
      ELSE IF is(argument.cur, <<"Equals">>)
        THEN IF argument.node.type # "Identifier"
          THEN Throw("InvalidKeywordArgumentTarget", "", "", argument.cur + 1)
          ELSE LET value == call("parseExpression", argument.cur + 1)
               IN  IF Ok(value)
                     THEN Return(KeywordArgumentExpression(argument.node, value.node), value.cur)
                     ELSE value
        ELSE argument

parseArgumentsList(c, args) ==
  IF ~is(c, <<"CloseParen">>)
    THEN LET argument == parseArgument(c)
         IN  IF Ok(argument)
               THEN parseArgumentsList(skipComma(argument.cur), Append(args, argument.node))
               ELSE argument
    ELSE Return(args, c)

\* after the loop of parseMemberExpressionArgumentsList
\* new SliceExpression(...slices): the components not given are undefined
sliceResult(c, slices, isSlice) ==
  IF Len(slices) = 0
    THEN Throw("EmptyIndexExpression", "", "", c)
    ELSE IF isSlice
      THEN IF Len(slices) > 3
        THEN Throw("MalformedSlice", "", "", c)
        ELSE Return(SliceExpression(slices[1],
                                    IF Len(slices) >= 2 THEN slices[2] ELSE Undefined,
                                    IF Len(slices) >= 3 THEN slices[3] ELSE Undefined), c)
      ELSE Return(slices[1], c)

parseMemberExpressionArgumentsList(c, slices, isSlice) ==
  IF ~is(c, <<"CloseSquareBracket">>)
    THEN IF is(c, <<"Colon">>)
      THEN parseMemberExpressionArgumentsList(c + 1, Append(slices, Undefined), TRUE)
      ELSE LET e == call("parseExpression", c)
           IN  IF ~Ok(e) THEN e
               ELSE IF is(e.cur, <<"Colon">>)
                 THEN parseMemberExpressionArgumentsList(e.cur + 1, Append(slices, e.node), TRUE)
                 ELSE parseMemberExpressionArgumentsList(e.cur, Append(slices, e.node), isSlice)
    ELSE sliceResult(c, slices, isSlice)

parseMemberLoop(object) ==
  IF is(object.cur, <<"Dot">>) \/ is(object.cur, <<"OpenSquareBracket">>)
    THEN LET computed == tokens[object.cur + 1].type # "Dot"
         IN  IF computed
               THEN LET property == parseMemberExpressionArgumentsList(object.cur + 1, <<>>, FALSE)
                    IN  IF ~Ok(property) THEN property ELSE
                        LET e == expect(property.cur, "CloseSquareBracket")
                        IN  IF Ok(e)
                              THEN parseMemberLoop(Return(MemberExpression(object.node, property.node, TRUE), e.cur))
                              ELSE e
               ELSE LET property == call("parsePrimaryExpression", object.cur + 1)
                    IN  IF ~Ok(property) THEN property
                        ELSE IF property.node.type # "Identifier"
                          THEN Throw("InvalidPropertyAccess", "", "", property.cur)
                          ELSE parseMemberLoop(Return(MemberExpression(object.node, property.node, FALSE), property.cur))
    ELSE object

parseMemberExpression(c) ==
  LET object == call("parsePrimaryExpression", c)
  IN  IF Ok(object) THEN parseMemberLoop(object) ELSE object

----------------------------------------------------------------------------
(* Primary expressions.                                                    *)

\* while (!is(CloseSquareBracket)) { values.push(parseExpression()); comma }
parseArrayElements(c, values) ==
  IF ~is(c, <<"CloseSquareBracket">>)
    THEN LET e == call("parseExpression", c)
         IN  IF Ok(e) THEN parseArrayElements(skipComma(e.cur), Append(values, e.node)) ELSE e
    ELSE Return(values, c)

\* values.set(key, value) of a Map keyed by the content of the key
setByContent(values, key, value) ==
  IF \E i \in 1..Len(values) : values[i][1] = key
    THEN [i \in 1..Len(values) |-> IF values[i][1] = key THEN <<key, value>> ELSE values[i]]
    ELSE Append(values, <<key, value>>)

\* parseObjectEntries with a slip: an entry with an equal key is replaced
parseObjectEntriesByContent(c, values) ==
  IF ~is(c, <<"CloseCurlyBracket">>)
    THEN LET key == call("parseExpression", c)
         IN  IF ~Ok(key) THEN key ELSE
             LET k == expect(key.cur, "Colon")
             IN  IF ~Ok(k) THEN k ELSE
                 LET value == call("parseExpression", k.cur)
                 IN  IF Ok(value)
                       THEN parseObjectEntries(skipComma(value.cur), setByContent(values, key.node, value.node))
                       ELSE value
    ELSE Return(values, c)

\* while (!is(CloseCurlyBracket)) { key : value; values.set(key, value); comma }
\* The Map is keyed by the key node object, so every set adds an entry.
parseObjectEntries(c, values) ==
  IF ~is(c, <<"CloseCurlyBracket">>)
    THEN LET key == call("parseExpression", c)
         IN  IF ~Ok(key) THEN key ELSE
             LET k == expect(key.cur, "Colon")
             IN  IF ~Ok(k) THEN k ELSE
                 LET value == call("parseExpression", k.cur)
                 IN  IF Ok(value)
                       THEN parseObjectEntries(skipComma(value.cur), Append(values, <<key.node, value.node>>))
                       ELSE value
    ELSE Return(values, c)

\* case OpenParen: the closing parenthesis is read as tokens[current].type
parseParenthesized(c) ==
  LET expression == call("parseExpression", c + 1)
  IN  IF ~Ok(expression) THEN expression
      ELSE IF expression.cur >= Len(tokens)
        THEN Throw("TypeError", "", "undefined", expression.cur)
      ELSE IF tokens[expression.cur + 1].type # "CloseParen"
        THEN Throw("ExpectedToken", "CloseParen", tokens[expression.cur + 1].type, expression.cur)
        ELSE Return(expression.node, expression.cur + 1)

\* parsePrimaryExpression with a slip: a token that starts no primary
\* expression yields an undefined node instead of an exception
parsePrimaryExpressionNoThrow(c) ==
  IF c >= Len(tokens) THEN Throw("TypeError", "", "undefined", c)
  ELSE LET token == tokens[c + 1]
       IN  CASE token.type = "NumericLiteral" -> Return(NumericLiteral(Number(token.value)), c + 1)
             [] token.type = "StringLiteral" -> Return(StringLiteral(token.value), c + 1)
             [] token.type = "BooleanLiteral" -> Return(BooleanLiteral(token.value = "true"), c + 1)
             [] token.type = "Identifier" -> Return(Identifier(token.value), c + 1)
             [] token.type = "OpenParen" -> parseParenthesized(c)
             [] token.type = "OpenSquareBracket" ->
                  LET values == parseArrayElements(c + 1, <<>>)
                  IN  IF Ok(values) THEN Return(ArrayLiteral(values.node), values.cur + 1) ELSE values
             [] token.type = "OpenCurlyBracket" ->
                  LET values == parseObjectEntries(c + 1, <<>>)
                  IN  IF Ok(values) THEN Return(ObjectLiteral(values.node), values.cur + 1) ELSE values
             [] OTHER -> Return(Undefined, c)

parsePrimaryExpression(c) ==
  IF c >= Len(tokens) THEN Throw("TypeError", "", "undefined", c)
  ELSE LET token == tokens[c + 1]
       IN  CASE token.type = "NumericLiteral" -> Return(NumericLiteral(Number(token.value)), c + 1)
             [] token.type = "StringLiteral" -> Return(StringLiteral(token.value), c + 1)
             [] token.type = "BooleanLiteral" -> Return(BooleanLiteral(token.value = "true"), c + 1)
             [] token.type = "Identifier" -> Return(Identifier(token.value), c + 1)
             [] token.type = "OpenParen" -> parseParenthesized(c)
             [] token.type = "OpenSquareBracket" ->
                  LET values == parseArrayElements(c + 1, <<>>)
                  IN  IF Ok(values) THEN Return(ArrayLiteral(values.node), values.cur + 1) ELSE values
             [] token.type = "OpenCurlyBracket" ->
                  LET values == parseObjectEntries(c + 1, <<>>)
                  IN  IF Ok(values) THEN Return(ObjectLiteral(values.node), values.cur + 1) ELSE values
             [] OTHER -> Throw("UnexpectedToken", "", token.type, c)

----------------------------------------------------------------------------
(* The parse functions are closures of parse that call one another.  A     *)
(* call of the parse function named f at cursor c is written call(f, c).   *)

call(f, c) ==
  CASE f = "parseAny" -> parseAny(c)
    [] f = "parseText" -> parseText(c)
    [] f = "parseJinjaStatement" -> parseJinjaStatement(c)
    [] f = "parseJinjaExpression" -> parseJinjaExpression(c)
    [] f = "parseSetStatement" -> parseSetStatement(c)
    [] f = "parseIfStatement" -> parseIfStatement(c)
    [] f = "parseForStatement" -> parseForStatement(c)
    [] f = "parseExpression" -> parseExpression(c)
    [] f = "parseLogicalOrExpression" -> parseLogicalOrExpression(c)
    [] f = "parseLogicalAndExpression" -> parseLogicalAndExpression(c)
    [] f = "parseLogicalNegationExpression" -> parseLogicalNegationExpression(c)
    [] f = "parseComparisonExpression" -> parseComparisonExpression(c)
    [] f = "parseAdditiveExpression" -> parseAdditiveExpression(c)
    [] f = "parseMultiplicativeExpression" -> parseMultiplicativeExpression(c)
    [] f = "parseTestExpression" -> parseTestExpression(c)
    [] f = "parseFilterExpression" -> parseFilterExpression(c)
    [] f = "parseCallMemberExpression" -> parseCallMemberExpression(c)
    [] f = "parseArgs" -> parseArgs(c)
    [] f = "parseMemberExpression" -> parseMemberExpression(c)
    [] f = "parsePrimaryExpression" -> parsePrimaryExpression(c)

----------------------------------------------------------------------------
(* Token sequences given to parse.  The lexer is not part of the parser;   *)
(* the inputs are token sequences it can produce, and their truncations.   *)

Tok(type, value) == [type |-> type, value |-> value]

Id(name) == Tok("Identifier", name)

Num(value) == Tok("NumericLiteral", value)

Text(value) == Tok("Text", value)

OpenStatement == Tok("OpenStatement", "{%")

CloseStatement == Tok("CloseStatement", "%}")

OpenExpression == Tok("OpenExpression", "{{")

CloseExpression == Tok("CloseExpression", "}}")

Kw(type, value) == <<OpenStatement, Tok(type, value), CloseStatement>>

Expr(s) == <<OpenExpression>> \o s \o <<CloseExpression>>

Dot == Tok("Dot", ".")

Colon == Tok("Colon", ":")

Comma == Tok("Comma", ",")

OpenParen == Tok("OpenParen", "(")

CloseParen == Tok("CloseParen", ")")

OpenSquareBracket == Tok("OpenSquareBracket", "[")

CloseSquareBracket == Tok("CloseSquareBracket", "]")

Plus == Tok("AdditiveBinaryOperator", "+")

Times == Tok("MultiplicativeBinaryOperator", "*")

EqEq == Tok("ComparisonBinaryOperator", "==")

Less == Tok("ComparisonBinaryOperator", "<")

In == Tok("In", "in")

NotIn == Tok("NotIn", "not in")

Or == Tok("Or", "or")

And == Tok("And", "and")

Not == Tok("Not", "not")

Is == Tok("Is", "is")

\* longest operator chain x0 op1 x1 ... opn xn
MaxChain == 3

\* longest content of a bracket access
MaxSlice == 7

\* most elif branches of an if block
MaxElif == 2

\* longest loop target of a for statement
MaxTarget == 3

\* longest sequence of postfix operations after a primary
MaxPostfix == 3

SeqsUpTo(S, n) == UNION {[1..k -> S] : k \in 0..n}

Prefixes(s) == {SubSeq(s, 1, k) : k \in 0..Len(s)}

RECURSIVE Concat(_)
Concat(ss) == IF Len(ss) = 0 THEN <<>> ELSE Head(ss) \o Concat(Tail(ss))

\* the literal cases of the specification
NamedInputs ==
  { Expr(<<Num("4"), Times, Num("4"), Is, Id("divisibleby"), OpenParen, Num("2"), CloseParen>>),
    Expr(<<Num("4"), Times, Num("4"), Is, Id("even")>>),
    Expr(<<Id("a"), Is, Not, Tok("BooleanLiteral", "true")>>),
    Expr(<<Id("a"), Dot, Id("b"), OpenSquareBracket, Id("c"), CloseSquareBracket,
           OpenParen, Id("d"), CloseParen, Dot, Id("e"), OpenParen, CloseParen>>),
    Expr(<<Id("x"), OpenSquareBracket, Id("a"), Id("b"), CloseSquareBracket>>),
    Expr(<<Not, Id("a"), Not, Id("b")>>),
    Expr(<<Not, Not, Id("a")>>),
    Expr(<<Id("a"), Tok("If", "if"), Id("cond"), Tok("Else", "else"), Id("b")>>),
    Expr(<<Id("f"), OpenParen, Id("x"), Tok("Equals", "="), Num("1"), Comma,
           Id("y"), Tok("Equals", "="), Num("2"), CloseParen>>),
    Expr(<<Id("a"), Tok("Pipe", "|"), Id("f"), Tok("Pipe", "|"), Id("g"), OpenParen, Num("1"), CloseParen>>),
    Expr(<<OpenSquareBracket, Num("1"), Comma, Num("2"), Comma, CloseSquareBracket>>),
    Expr(<<Tok("OpenCurlyBracket", "{"), Tok("StringLiteral", "k"), Colon, Num("1"), Comma,
           Tok("StringLiteral", "k"), Colon, Num("2"), Tok("CloseCurlyBracket", "}")>>),
    Expr(<<OpenParen, Num("1"), Plus, Num("2"), CloseParen, Times, Num("3")>>),
    <<OpenStatement, Tok("Set", "set"), Id("x"), Dot, Id("y"), Tok("Equals", "="), Num("1"), CloseStatement>>,
    <<Text("X"), OpenExpression, Id("a"), CloseExpression, Text("Y")>>,
    <<OpenStatement, Tok("For", "for"), Id("a"), In, Id("c"), CloseStatement, Text("X"),
      OpenExpression, Id("a"), CloseExpression>> \o Kw("EndFor", "endfor"),
    <<OpenStatement, Tok("For", "for"), Id("a"), Dot, Id("b"), In, Id("c"), CloseStatement, Text("X")>>
      \o Kw("EndFor", "endfor"),
    <<OpenStatement, Tok("If", "if"), Id("a"), CloseStatement, Text("X")>>,
    Expr(<<Num("1"), Plus, Num("2"), Times, Num("3")>>),
    Expr(<<Id("a"), Or, Id("b"), And, Id("c")>>),
    Expr(<<Not, Id("a"), And, Id("b")>>),
    Expr(<<Id("a"), In, Id("b"), EqEq, Id("c")>>),
    Expr(<<Id("x"), OpenSquareBracket, Num("1"), Colon, Num("2"), Colon, Num("3"), Colon, Num("4"), CloseSquareBracket>>),
    Expr(<<Id("x"), OpenSquareBracket, Num("1"), Colon, Num("2"), Colon, Num("3"), Colon, CloseSquareBracket>>),
    Expr(<<OpenSquareBracket, Num("1"), Num("2"), CloseSquareBracket>>),
    Expr(<<Id("f"), OpenParen, Id("a"), Id("b"), CloseParen>>),
    <<CloseStatement>>,
    <<OpenStatement, Id("a"), CloseStatement>> }

\* {{ x0 op1 x1 ... opn xn }}, also with a leading `not`
BinaryOperators == {Or, And, EqEq, Less, In, NotIn, Plus, Times}

Operand(i) == Id(<<"x0", "x1", "x2", "x3", "x4", "x5">>[i + 1])

Chain(ops) == <<Operand(0)>> \o Concat([i \in 1..Len(ops) |-> <<ops[i], Operand(i)>>])

ChainInputs ==
  UNION {{Expr(Chain(ops)), Expr(<<Not>> \o Chain(ops))} : ops \in SeqsUpTo(BinaryOperators, MaxChain)}

\* {{ x[ ... ] }} over numerals and colons
SliceInputs ==
  {Expr(<<Id("x"), OpenSquareBracket>> \o s \o <<CloseSquareBracket>>) : s \in SeqsUpTo({Num("1"), Colon}, MaxSlice)}

\* {% if c0 %}B0{% elif c1 %}B1 ... {% else %}Z{% endif %}
IfChain(n, withElse) ==
  <<OpenStatement, Tok("If", "if"), Operand(0), CloseStatement, Text("B0")>>
  \o Concat([i \in 1..n |-> <<OpenStatement, Tok("ElseIf", "elif"), Operand(i), CloseStatement,
                               Text(<<"B1", "B2", "B3", "B4">>[i])>>])
  \o (IF withElse THEN Kw("Else", "else") \o <<Text("Z")>> ELSE <<>>)
  \o Kw("EndIf", "endif")

IfInputs == {IfChain(n, e) \o t : n \in 0..MaxElif, e \in BOOLEAN, t \in {<<>>, <<Text("T")>>}}

\* {% for <target> in c %}X{% endfor %}
TargetTokens == {Id("a"), Num("1"), Tok("StringLiteral", "s"), Dot, CloseParen, In}

ForInputs ==
  {<<OpenStatement, Tok("For", "for")>> \o t
     \o <<In, Id("c"), CloseStatement, Text("X")>> \o Kw("EndFor", "endfor") :
       t \in SeqsUpTo(TargetTokens, MaxTarget)
            \cup { <<OpenParen, Id("a"), CloseParen>>, <<OpenParen, Num("1"), CloseParen>>,
                   <<OpenParen, Id("a"), Dot, Id("b"), CloseParen>>,
                   <<OpenSquareBracket, Id("a"), CloseSquareBracket>>,
                   <<Id("a"), OpenSquareBracket, Num("1"), CloseSquareBracket>> }}

\* {{ a <postfix operations> }}
PostfixOperations ==
  { <<Dot, Id("b")>>, <<OpenSquareBracket, Id("c"), CloseSquareBracket>>,
    <<OpenParen, Id("d"), CloseParen>>, <<OpenParen, CloseParen>> }

PostfixInputs == {Expr(<<Id("a")>> \o Concat(ops)) : ops \in SeqsUpTo(PostfixOperations, MaxPostfix)}

\* most key: value pairs of an object literal
MaxPairs == 3

ObjectKeys == {Tok("StringLiteral", "k"), Tok("StringLiteral", "j")}

\* {{ { k1: 1, k2: 2, ... } }}, the value of pair i being the numeral i
ObjectInput(keys, trailingComma) ==
  Expr(<<Tok("OpenCurlyBracket", "{")>>
       \o Concat([i \in 1..Len(keys) |->
             <<keys[i], Colon, Num(<<"1", "2", "3", "4">>[i])>>
             \o (IF i < Len(keys) \/ trailingComma THEN <<Comma>> ELSE <<>>)])
       \o <<Tok("CloseCurlyBracket", "}")>>)

ObjectInputs == {ObjectInput(keys, t) : keys \in SeqsUpTo(ObjectKeys, MaxPairs), t \in BOOLEAN}

Truncated == UNION {Prefixes(s) : s \in NamedInputs \cup IfInputs \cup ForInputs}

Inputs == NamedInputs \cup ChainInputs \cup SliceInputs \cup IfInputs \cup ForInputs
            \cup PostfixInputs \cup ObjectInputs \cup Truncated

----------------------------------------------------------------------------
(* parse(tokens): program = new Program([]), current = 0, then the loop    *)
(* while (current < tokens.length) program.body.push(parseAny()).          *)

Init ==
  /\ tokens \in Inputs
  /\ current = 0
  /\ program = <<>>
  /\ pc = "running"
  /\ error = NoErr

\* one iteration of the top-level loop that returns a statement
PushStatement ==
  /\ pc = "running"
  /\ current < Len(tokens)
  /\ LET s == call("parseAny", current)
     IN  /\ Ok(s)
         /\ program' = Append(program, s.node)
         /\ current' = s.cur
  /\ UNCHANGED <<tokens, pc, error>>

\* one iteration of the top-level loop in which an exception is thrown
ThrowError ==
  /\ pc = "running"
  /\ current < Len(tokens)
  /\ LET s == call("parseAny", current)
     IN  /\ ~Ok(s)
         /\ error' = s.err
         /\ current' = s.cur
  /\ pc' = "threw"
  /\ UNCHANGED <<tokens, program>>

\* return program
ReturnProgram ==
  /\ pc = "running"
  /\ current >= Len(tokens)
  /\ pc' = "returned"
  /\ UNCHANGED <<tokens, current, program, error>>

Next == PushStatement \/ ThrowError \/ ReturnProgram

Spec == Init /\ [][Next]_vars

----------------------------------------------------------------------------
(* Properties.                                                             *)

Done == pc # "running"

Accepted == pc = "returned"

Failed(kind) == pc = "threw" /\ error.kind = kind

C1Input == Expr(<<Num("4"), Times, Num("4"), Is, Id("divisibleby"), OpenParen, Num("2"), CloseParen>>)

\* C1: `4 * 4 is divisibleby(2)` is accepted and yields
\* Binary(*, 4, Test(4, false, Call(divisibleby, [2]))): the argument list
\* after the test name is part of the test.
C1_TestNameWithArguments ==
  (Done /\ tokens = C1Input) =>
    /\ Accepted
    /\ program = <<BinaryExpression(Times, NumericLiteral(4),
                     TestExpression(NumericLiteral(4), FALSE,
                       CallExpression(Identifier("divisibleby"), <<NumericLiteral(2)>>)))>>

C2Input ==
  Expr(<<Id("a"), Dot, Id("b"), OpenSquareBracket, Id("c"), CloseSquareBracket,
         OpenParen, Id("d"), CloseParen, Dot, Id("e"), OpenParen, CloseParen>>)

\* C2: postfix operations chain in any order: `a.b[c](d).e()` is accepted and
\* yields Call(Member(Call(Member(Member(a, b), c, computed), [d]), e), []).
C2_PostfixChainsAfterCall ==
  (Done /\ tokens = C2Input) =>
    /\ Accepted
    /\ program = <<CallExpression(
                     MemberExpression(
                       CallExpression(
                         MemberExpression(
                           MemberExpression(Identifier("a"), Identifier("b"), FALSE),
                           Identifier("c"), TRUE),
                         <<Identifier("d")>>),
                       Identifier("e"), FALSE),
                     <<>>)>>

C3Input ==
  <<OpenStatement, Tok("For", "for"), Id("a"), Dot, Id("b"), In, Id("c"), CloseStatement, Text("X")>>
    \o Kw("EndFor", "endfor")

\* the input starts with {% for and has a loop target token
ForStatementAtStart == Len(tokens) >= 3 /\ tokens[1].type = "OpenStatement" /\ tokens[2].type = "For"

\* C3 as claimed: `{% for a.b in c %}`, whose loop target is not a single bare
\* Identifier, fails with InvalidLoopVariable and with no other error.
C3_Original_InvalidLoopVariable ==
  (Done /\ tokens = C3Input) => Failed("InvalidLoopVariable")

\* C3 as amended: in a for statement parse fails with InvalidLoopVariable
\* exactly when the primary expression parsed at the loop target is not an
\* Identifier node (a literal target always is such a case); a target that
\* starts with an Identifier followed by a token other than `in`, such as
\* a.b, fails with ExpectedToken(in, actual) instead.
C3_LoopVariableIsPrimaryIdentifier ==
  (Done /\ ForStatementAtStart) =>
    /\ tokens[3].type = "NumericLiteral" => Failed("InvalidLoopVariable")
    /\ (tokens[3].type = "Identifier" /\ Len(tokens) >= 4 /\ tokens[4].type # "In") =>
         (Failed("ExpectedToken") /\ error.expected = "In" /\ error.actual = tokens[4].type)
    /\ LET target == call("parsePrimaryExpression", 2)
       IN  Ok(target) => (Failed("InvalidLoopVariable") <=> target.node.type # "Identifier")

C3_Witness ==
  /\ tokens = C3Input
  /\ Failed("ExpectedToken")
  /\ error.expected = "In"
  /\ error.actual = "Dot"

C4Input == <<OpenStatement, Tok("If", "if"), Id("a"), CloseStatement, Text("X")>>

\* C4: an if block whose endif is missing before the end of the tokens,
\* `{% if a %}X`, fails with ExpectedToken(endif, actual) raised by expect.
C4_MissingEndIfIsExpectedToken ==
  (Done /\ tokens = C4Input) => (Failed("ExpectedToken") /\ error.expected = "EndIf")

\* C5: no step of parse reads a token at an index >= tokens.length without
\* a bounds check; such a read of `.type` raises a TypeError.
C5_NoReadPastTheEnd == error.kind # "TypeError"

LeafTypes == {"Text", "StringLiteral", "NumericLiteral", "BooleanLiteral", "Identifier"}

\* the tokens that become a leaf node of their own
LeafTokens == Cardinality({i \in 1..Len(tokens) : tokens[i].type \in LeafTypes})

RECURSIVE NodeLeaves(_), ListLeaves(_), PairLeaves(_)

\* the leaf nodes of a tree
NodeLeaves(n) ==
  CASE n.type \in {"StringLiteral", "NumericLiteral", "BooleanLiteral", "Identifier"} -> 1
    [] n.type = "Undefined" -> 0
    [] n.type = "ArrayLiteral" -> ListLeaves(n.elements)
    [] n.type = "ObjectLiteral" -> PairLeaves(n.pairs)
    [] n.type = "If" -> NodeLeaves(n.test) + ListLeaves(n.body) + ListLeaves(n.alternate)
    [] n.type = "For" -> NodeLeaves(n.loopVariable) + NodeLeaves(n.iterable) + ListLeaves(n.body)
    [] n.type = "SetStatement" -> NodeLeaves(n.target) + NodeLeaves(n.value)
    [] n.type = "MemberExpression" -> NodeLeaves(n.object) + NodeLeaves(n.property)
    [] n.type = "CallExpression" -> NodeLeaves(n.callee) + ListLeaves(n.args)
    [] n.type = "BinaryExpression" -> NodeLeaves(n.left) + NodeLeaves(n.right)
    [] n.type = "UnaryExpression" -> NodeLeaves(n.operand)
    [] n.type = "FilterExpression" -> NodeLeaves(n.operand) + NodeLeaves(n.filter)
    [] n.type = "TestExpression" -> NodeLeaves(n.operand) + NodeLeaves(n.test)
    [] n.type = "SliceExpression" -> NodeLeaves(n.start) + NodeLeaves(n.stop) + NodeLeaves(n.step)
    [] n.type = "KeywordArgumentExpression" -> NodeLeaves(n.key) + NodeLeaves(n.value)

ListLeaves(ns) == IF Len(ns) = 0 THEN 0 ELSE NodeLeaves(Head(ns)) + ListLeaves(Tail(ns))

PairLeaves(ps) ==
  IF Len(ps) = 0 THEN 0 ELSE NodeLeaves(Head(ps)[1]) + NodeLeaves(Head(ps)[2]) + PairLeaves(Tail(ps))

\* C6: when parse accepts, every expression node built is in the returned
\* Program: the Program has one leaf node for every literal, identifier and
\* text token of the input, none is discarded or overwritten.
C6_NoParsedNodeIsDiscarded == Accepted => ListLeaves(program) = LeafTokens

\* the input is {{ x[ ... ] }} with numerals and colons between the brackets
IsSliceInput ==
  /\ Len(tokens) >= 5
  /\ SubSeq(tokens, 1, 3) = <<OpenExpression, Id("x"), OpenSquareBracket>>
  /\ SubSeq(tokens, Len(tokens) - 1, Len(tokens)) = <<CloseSquareBracket, CloseExpression>>
  /\ \A i \in 4..(Len(tokens) - 2) : tokens[i].type \in {"NumericLiteral", "Colon"}

Colons == Cardinality({i \in 1..Len(tokens) : tokens[i].type = "Colon"})

\* C7: a bracket access with three or more `:` separators, its components
\* present or omitted, fails with MalformedSlice and is never a slice.
C7_FourComponentsAreMalformed ==
  (Done /\ IsSliceInput /\ Colons >= 3) => Failed("MalformedSlice")

OperandNode(i) == Identifier(Operand(i).value)

RECURSIVE NestedIf(_, _, _)

\* the If of branch i of IfChain(n, withElse)
NestedIf(i, n, withElse) ==
  If(OperandNode(i),
     <<StringLiteral(<<"B0", "B1", "B2", "B3", "B4">>[i + 1])>>,
     IF i < n THEN <<NestedIf(i + 1, n, withElse)>>
     ELSE IF withElse THEN <<StringLiteral("Z")>> ELSE <<>>)

\* C8: an if block with n elif branches and an optional else is accepted and
\* yields n + 1 nested If nodes, the If of every elif being the sole element
\* of its parent's alternate; the one endif closes the whole chain, after
\* which the cursor is at the end of the block.
C8_ElifChainNestsUnderOneEndIf ==
  \A n \in 0..MaxElif, withElse \in BOOLEAN :
    (Done /\ tokens = IfChain(n, withElse)) =>
      /\ Accepted
      /\ program = <<NestedIf(0, n, withElse)>>
      /\ current = Len(tokens)
      /\ Cardinality({i \in 1..Len(tokens) : tokens[i].type = "EndIf"}) = 1

C8_Witness ==
  /\ Accepted
  /\ tokens = IfChain(1, TRUE)
  /\ program = <<If(Identifier("x0"), <<StringLiteral("B0")>>,
                   <<If(Identifier("x1"), <<StringLiteral("B1")>>, <<StringLiteral("Z")>>)>>)>>

RECURSIVE LeftFold(_, _)

\* Binary(opk, ... Binary(op1, x0, x1) ..., xk)
LeftFold(ops, k) ==
  IF k = 0 THEN OperandNode(0)
  ELSE BinaryExpression(ops[k], LeftFold(ops, k - 1), OperandNode(k))

ComparisonOperators == {EqEq, Less, In, NotIn}

Tier(op) ==
  CASE op.type = "Or" -> 1
    [] op.type = "And" -> 2
    [] op.type = "Not" -> 3
    [] op.type \in {"ComparisonBinaryOperator", "In", "NotIn"} -> 4
    [] op.type = "AdditiveBinaryOperator" -> 5
    [] op.type = "MultiplicativeBinaryOperator" -> 6

\* C10: the tiers nest in the order or < and < not < comparison < additive
\* < multiplicative: of two adjacent operators the one of the tighter tier
\* ends up below the one of the looser tier (operators of one tier folding
\* left), a leading `not` taking everything of a tighter tier as its operand;
\* `1 + 2 * 3`, `a or b and c` and `not a and b` yield the trees stated.
C10_TiersNestInOrder ==
  /\ \A op1, op2 \in BinaryOperators :
       (Done /\ tokens = Expr(Chain(<<op1, op2>>))) =>
         /\ Accepted
         /\ program = <<IF Tier(op2) > Tier(op1)
                          THEN BinaryExpression(op1, OperandNode(0),
                                 BinaryExpression(op2, OperandNode(1), OperandNode(2)))
                          ELSE BinaryExpression(op2,
                                 BinaryExpression(op1, OperandNode(0), OperandNode(1)),
                                 OperandNode(2))>>
  /\ \A op \in BinaryOperators :
       (Done /\ tokens = Expr(<<Not>> \o Chain(<<op>>))) =>
         /\ Accepted
         /\ program = <<IF Tier(op) > Tier(Not)
                          THEN UnaryExpression(Not, BinaryExpression(op, OperandNode(0), OperandNode(1)))
                          ELSE BinaryExpression(op, UnaryExpression(Not, OperandNode(0)), OperandNode(1))>>
  /\ (Done /\ tokens = Expr(<<Num("1"), Plus, Num("2"), Times, Num("3")>>)) =>
       /\ Accepted
       /\ program = <<BinaryExpression(Plus, NumericLiteral(1),
                        BinaryExpression(Times, NumericLiteral(2), NumericLiteral(3)))>>
  /\ (Done /\ tokens = Expr(<<Id("a"), Or, Id("b"), And, Id("c")>>)) =>
       /\ Accepted
       /\ program = <<BinaryExpression(Or, Identifier("a"),
                        BinaryExpression(And, Identifier("b"), Identifier("c")))>>
  /\ (Done /\ tokens = Expr(<<Not, Id("a"), And, Id("b")>>)) =>
       /\ Accepted
       /\ program = <<BinaryExpression(And, UnaryExpression(Not, Identifier("a")), Identifier("b"))>>

C10_Witness ==
  /\ Accepted
  /\ tokens = Expr(<<Num("1"), Plus, Num("2"), Times, Num("3")>>)
  /\ program[1].operator = Plus
  /\ program[1].right.operator = Times

\* C11: object literal keys are not deduplicated: an object literal written
\* with n key: value pairs is accepted and yields an ObjectLiteral of exactly
\* n entries in source order, also when keys have the same text.
C11_ObjectKeysAreNotDeduplicated ==
  \A keys \in SeqsUpTo(ObjectKeys, MaxPairs), t \in BOOLEAN :
    (Done /\ tokens = ObjectInput(keys, t)) =>
      /\ Accepted
      /\ Len(program) = 1
      /\ program[1].type = "ObjectLiteral"
      /\ Len(program[1].pairs) = Len(keys)
      /\ program[1].pairs = [i \in 1..Len(keys) |-> <<StringLiteral(keys[i].value), NumericLiteral(i)>>]

C11_Witness ==
  /\ Accepted
  /\ tokens = ObjectInput(<<Tok("StringLiteral", "k"), Tok("StringLiteral", "k")>>, FALSE)
  /\ Len(program[1].pairs) = 2
  /\ program[1].pairs[1][1] = program[1].pairs[2][1]

\* C12: array literals and argument lists are comma-separated: a list with
\* no comma between two elements, `[1 2]` or `f(a b)`, is rejected with a
\* parser error.
C12_ListElementsNeedAComma ==
  (/\ Done
   /\ tokens \in { Expr(<<OpenSquareBracket, Num("1"), Num("2"), CloseSquareBracket>>),
                   Expr(<<Id("f"), OpenParen, Id("a"), Id("b"), CloseParen>>) })
    => pc = "threw"

\* the parse function f, called at any cursor, never moves the cursor back,
\* and has consumed at least one token when it returns
Advances(f) ==
  \A c \in 0..Len(tokens) :
    LET r == call(f, c)
    IN  r.cur >= c /\ (Ok(r) => r.cur > c)

\* what one iteration of a loop of the parser calls: parseAny in the top-level,
\* if, else and for loops; the operand functions, after the operator token is
\* consumed, in the binary, not, test, filter and member loops; parseExpression
\* in the argument, array, object and bracket loops; parseArgs in the chain of
\* calls
EveryIterationAdvances ==
  /\ Advances("parsePrimaryExpression")
  /\ Advances("parseAny")
  /\ Advances("parseExpression")
  /\ Advances("parseArgs")
  /\ Advances("parseSetStatement")
  /\ Advances("parseLogicalAndExpression")
  /\ Advances("parseLogicalNegationExpression")
  /\ Advances("parseAdditiveExpression")
  /\ Advances("parseMultiplicativeExpression")
  /\ Advances("parseTestExpression")

\* the top-level loop is never stuck: while parse is running, either the
\* cursor has reached the end and parse returns, or the iteration at the
\* cursor completes, with a statement or with an error
LoopCanStep ==
  pc = "running" =>
    \/ current >= Len(tokens)
    \/ LET s == call("parseAny", current)
       IN  \/ Ok(s) /\ s.cur > current
           \/ ~Ok(s) /\ s.err # NoErr

\* C13: parse terminates on every token sequence: the cursor never decreases,
\* every iteration of a loop advances the cursor by at least one token or
\* aborts with an error, so that the top-level loop, which is never stuck,
\* makes at most tokens.length iterations before parse returns a Program or
\* fails.
C13_ParseTerminates ==
  /\ []EveryIterationAdvances
  /\ [][/\ current' >= current
        /\ program' # program => current' > current]_vars
  /\ [](Len(program) <= current)
  /\ [](pc = "running" => current <= Len(tokens))
  /\ []LoopCanStep

C13_Witness ==
  /\ Accepted
  /\ Len(program) = 3
  /\ current = Len(tokens)
  /\ tokens = <<Text("X"), OpenExpression, Id("a"), CloseExpression, Text("Y")>>

====
